---- MODULE Spec2Model ----
(***************************************************************************)
(* The recipe API of app/recipe: RecipeViewSet (views.py) and              *)
(* RecipeSerializer (serializers.py) over the Recipe, Tag and Ingredient   *)
(* tables.  Every request is a process whose steps are the database        *)
(* statements its handler issues, in the handler's order; statements of    *)
(* different requests interleave freely (no handler opens a transaction).  *)
(***************************************************************************)
EXTENDS Integers, Sequences, FiniteSets, TLC

\* ------------------------------------------------------------- bounds
Users == {"A", "B"}
Names == {"a", "b"}
Titles == {"t1", "t2"}
Kinds == {"tags", "ingredients"}
Clients == {1, 2}
MaxLen == 2
MaxRecipes == 2
\* List elements, over all requests, of a run in which every worker handles
\* one request.
MaxLabels == 2
\* Requests, and list elements over all of them, of a run with one worker,
\* whose requests never overlap.
SerialRequests == 2
SerialLabels == 3
\* Requests, and list elements over all of them, of a run with one worker
\* that also receives PUT, 'user' fields and the list endpoints.
ApiRequests == 2
ApiLabels == 1

None == "none"

\* The lists a payload can carry for one label kind.
LabelLists == UNION {[1..n -> Names] : n \in 0..MaxLen}

\* A request payload: the fields of RecipeSerializer.Meta that the model keeps,
\* and a 'user' field, which Meta.fields does not name.
\* given[k] tells a supplied list (possibly empty) from an omitted field.
Payloads ==
    {[title |-> t, user |-> o, given |-> g, list |-> l] :
        t \in Titles \cup {None}, o \in Users \cup {None},
        g \in [Kinds -> BOOLEAN], l \in [Kinds -> LabelLists]}

ValidPayload(d) == \A k \in Kinds : ~d.given[k] => d.list[k] = <<>>

ValidPayloads == {d \in Payloads : ValidPayload(d)}

EmptyPayload ==
    [title |-> None, user |-> None, given |-> [k \in Kinds |-> FALSE], list |-> [k \in Kinds |-> <<>>]]

\* A serializer with 'user' among Meta.fields.
validated_user_writable(d) == d

\* serializer.validated_data: a field that Meta.fields does not name is
\* dropped.
validated(d) == [d EXCEPT !.user = None]

VARIABLES
    labels,       \* labels[k]: the Tag / Ingredient table, rows [id, user, name]
    recipes,      \* the Recipe table with its two many-to-many sets, by id
    nextRecipeId, \* the Recipe table's auto-increment counter
    req,          \* req[c]: the request worker c handles, or handled last
    quota,        \* the requests and list elements the run may still receive
    creator       \* creator[id]: request.user of the POST that made recipe id

vars == <<labels, recipes, nextRecipeId, req, quota, creator>>

\* ------------------------------------------------------------- storage
\* The storage layer rejects a second Tag / Ingredient row with the same
\* (owner, name).
UniqueOwnerName == TRUE

\* A lookup by name alone.
MatchingAnyOwner(rows, u, n) == {r \in rows : r.name = n}

\* Model.objects.filter(user=u, name=n)
Matching(rows, u, n) == {r \in rows : r.user = u /\ r.name = n}

\* The row a table's auto-increment gives to the next insert.
NewRow(rows, u, n) == [id |-> Cardinality(rows) + 1, user |-> u, name |-> n]

\* set([obj]) in place of add(obj).
SetAssoc(rec, k, id) == [rec EXCEPT !.assoc[k] = {id}]

\* instance.<kind>.add(obj): the through table is a set.
AddAssoc(rec, k, id) == [rec EXCEPT !.assoc[k] = @ \cup {id}]

\* clear() that forgets to remove the through rows.
KeepAssoc(rec, k) == rec

\* instance.tags.clear() and instance.ingredients.clear() together,
\* whichever field the payload supplied.
ClearAllKinds(rec, k) == [rec EXCEPT !.assoc = [kk \in Kinds |-> {}]]

\* instance.<kind>.clear()
ClearAssoc(rec, k) == [rec EXCEPT !.assoc[k] = {}]

\* instance.<kind>.all().delete() in place of clear(): the rows themselves go.
DeleteCleared(rows, rec, k) == {x \in rows : x.id \notin rec.assoc[k]}

\* instance.<kind>.clear() on the Tag / Ingredient table: only through rows
\* are removed.
AfterClear(rows, rec, k) == rows

\* The queryset without filter(user=...).
AllRecipes(u) == DOMAIN recipes

\* RecipeViewSet.get_queryset: the recipes a user's requests can see.
get_queryset(u) == {id \in DOMAIN recipes : recipes[id].user = u}

\* order_by('id'): ascending.
order_by_id(S) ==
    CHOOSE s \in [1..Cardinality(S) -> S] : \A i, j \in DOMAIN s : i < j => s[i] < s[j]

\* order_by('-id') of RecipeViewSet.get_queryset: the ids as a sequence,
\* highest first.
order_by_minus_id(S) ==
    CHOOSE s \in [1..Cardinality(S) -> S] : \A i, j \in DOMAIN s : i < j => s[i] > s[j]

\* BaseRecipeAttrViewSet.get_queryset before order_by: the Tag /
\* Ingredient rows of the user.
attr_queryset(k, u) == {x \in labels[k] : x.user = u}

Alphabet == <<"a", "b">>

Rank(n) == CHOOSE i \in DOMAIN Alphabet : Alphabet[i] = n

\* order_by('-name'): the orders the database may return the rows in, equal
\* names in either order.
order_by_minus_name(rows) ==
    {s \in [1..Cardinality(rows) -> rows] :
        /\ \A i, j \in DOMAIN s : i # j => s[i] # s[j]
        /\ \A i, j \in DOMAIN s : i < j => Rank(s[i].name) >= Rank(s[j].name)}

\* The database as a request finds it.  A request keeps it, and is `alone`,
\* while no other request has run since it began.
Snapshot == [labels |-> labels, recipes |-> recipes]

NoSnapshot == [labels |-> [k \in Kinds |-> {}], recipes |-> <<>>]

\* ------------------------------------------------------------- requests
IdleReq ==
    [pc |-> "idle", user |-> "-", op |-> "-", pk |-> 0, data |-> EmptyPayload,
     kind |-> "-", i |-> 0, obj |-> 0, instance |-> 0,
     \* missed: the <<kind, name>> get() did not find; conflict: those whose
     \* create() raised IntegrityError
     inst |-> [user |-> "-", title |-> "-"],
     missed |-> {}, conflict |-> {},
     \* result: the ids of the rows a list response holds, in its order
     result |-> <<>>, sent |-> None,
     status |-> 0, alone |-> FALSE, pre |-> NoSnapshot]

\* The Recipe table as an earlier POST without labels leaves it (the tests'
\* create_recipe fixture), or empty.
Fixtures ==
    {<<>>} \cup {1 :> [user |-> u, title |-> "t1", assoc |-> [k \in Kinds |-> {}]] : u \in Users}

\* Every worker handles one request, and the workers run concurrently.
Init ==
    /\ labels = [k \in Kinds |-> {}]
    /\ recipes \in Fixtures
    /\ nextRecipeId = Cardinality(DOMAIN recipes) + 1
    /\ req = [c \in Clients |-> IdleReq]
    /\ quota = [requests |-> Cardinality(Clients), labels |-> MaxLabels]
    /\ creator = [id \in DOMAIN recipes |-> recipes[id].user]

\* One worker: every request runs from its first statement to its response
\* before the next begins.
SerialInit ==
    /\ labels = [k \in Kinds |-> {}]
    /\ recipes = <<>>
    /\ nextRecipeId = 1
    /\ req = [c \in {1} |-> IdleReq]
    /\ quota = [requests |-> SerialRequests, labels |-> SerialLabels]
    /\ creator = <<>>

\* The database as one POST by u with the single label "a" of kind k leaves
\* it.
AfterPost(u, k) ==
    [labels |-> [kk \in Kinds |-> IF kk = k THEN {[id |-> 1, user |-> u, name |-> "a"]} ELSE {}],
     recipes |-> 1 :> [user |-> u, title |-> "t1",
                       assoc |-> [kk \in Kinds |-> IF kk = k THEN {1} ELSE {}]]]

\* One worker, starting from the empty database or from one recipe with a
\* label.
ApiInit ==
    /\ \E db \in {NoSnapshot} \cup {AfterPost(u, k) : u \in Users, k \in Kinds} :
          labels = db.labels /\ recipes = db.recipes
    /\ nextRecipeId = Cardinality(DOMAIN recipes) + 1
    /\ req = [c \in {1} |-> IdleReq]
    /\ quota = [requests |-> ApiRequests, labels |-> ApiLabels]
    /\ creator = [id \in DOMAIN recipes |-> recipes[id].user]

Workers == DOMAIN req

\* The elements of a payload that the quota counts: the list elements, and
\* a 'user' field.
Size(d) == Len(d.list["tags"]) + Len(d.list["ingredients"]) + (IF d.user = None THEN 0 ELSE 1)

\* The valid payloads of at most n counted elements, without and with a
\* 'user' field.
BySize ==
    [n \in 0..(MaxLabels + SerialLabels + ApiLabels) |->
        [plain |-> {d \in ValidPayloads : Size(d) <= n /\ d.user = None},
         user |-> {d \in ValidPayloads : Size(d) <= n /\ d.user # None}]]

\* The payloads the run may still receive: those of the fields Meta.fields
\* names, and those that carry a 'user' field as well.
Receivable == BySize[quota.labels].plain

WithUser == BySize[quota.labels].user

\* A worker is free before its first request and once it has responded.
Free(c) == req[c].pc \in {"idle", "done"}

\* The request ends with the given status.
Respond(r, s) == [r EXCEPT !.pc = "done", !.status = s]

\* update() with `if tags:` in place of `if tags is not None:`.
AfterKindTruthy(r, k) ==
    LET wants(kk) == Len(r.data.list[kk]) > 0
        first == IF r.op = "create" THEN "get" ELSE "clear"
        finish == IF r.op = "create" THEN Respond(r, 201) ELSE [r EXCEPT !.pc = "save"]
    IN  IF k = "-" /\ wants("tags")
          THEN [r EXCEPT !.pc = first, !.kind = "tags", !.i = 1]
        ELSE IF k # "ingredients" /\ wants("ingredients")
          THEN [r EXCEPT !.pc = first, !.kind = "ingredients", !.i = 1]
        ELSE finish

\* update() with pop('tags', []) in place of pop('tags', None).
AfterKindDefaultEmpty(r, k) ==
    LET wants(kk) == IF r.op = "create" THEN Len(r.data.list[kk]) > 0 ELSE TRUE
        first == IF r.op = "create" THEN "get" ELSE "clear"
        finish == IF r.op = "create" THEN Respond(r, 201) ELSE [r EXCEPT !.pc = "save"]
    IN  IF k = "-" /\ wants("tags")
          THEN [r EXCEPT !.pc = first, !.kind = "tags", !.i = 1]
        ELSE IF k # "ingredients" /\ wants("ingredients")
          THEN [r EXCEPT !.pc = first, !.kind = "ingredients", !.i = 1]
        ELSE finish

\* Where the serializer goes once the label kinds up to and including `k`
\* are reconciled ("-" : none yet).  create() pops a missing field as [],
\* update() as None and then skips the kind.
AfterKind(r, k) ==
    LET wants(kk) == IF r.op = "create" THEN Len(r.data.list[kk]) > 0 ELSE r.data.given[kk]
        first == IF r.op = "create" THEN "get" ELSE "clear"
        finish == IF r.op = "create" THEN Respond(r, 201) ELSE [r EXCEPT !.pc = "save"]
    IN  IF k = "-" /\ wants("tags")
          THEN [r EXCEPT !.pc = first, !.kind = "tags", !.i = 1]
        ELSE IF k # "ingredients" /\ wants("ingredients")
          THEN [r EXCEPT !.pc = first, !.kind = "ingredients", !.i = 1]
        ELSE finish

\* A new request takes the lowest free worker; the responses of the requests
\* that have ended are delivered by then.
Accepts(c) ==
    /\ c \in Workers
    /\ Free(c)
    /\ \A d \in Workers : d < c => ~Free(d)
    /\ quota.requests > 0

Overlaps(c) == \E d \in Workers \ {c} : ~Free(d)

Begin(c, r) ==
    /\ quota' = [requests |-> quota.requests - 1,
                 labels |-> quota.labels - Size([r.data EXCEPT !.user = r.sent])]
    /\ req' = [d \in Workers |->
                 IF d = c THEN IF Overlaps(c) THEN r ELSE [r EXCEPT !.alone = TRUE, !.pre = Snapshot]
                 ELSE IF Free(d) THEN IdleReq
                 ELSE [req[d] EXCEPT !.alone = FALSE, !.pre = NoSnapshot]]

\* The request of user u with request.data d: the serializer works on the
\* validated data; sent keeps the 'user' field of request.data.
NewReq(u, op, pk, d) ==
    [IdleReq EXCEPT !.user = u, !.op = op, !.pk = pk, !.data = validated(d), !.sent = d.user]

\* POST /recipes/: validation, then perform_create -> RecipeSerializer.create
\* up to Recipe.objects.create.
\* perform_create saves with user=self.request.user, which overrides a
\* 'user' of validated_data.
StartCreate(c, u, d) ==
    IF d.title = None
      THEN /\ Begin(c, Respond(NewReq(u, "create", 0, d), 400))
           /\ UNCHANGED <<labels, recipes, nextRecipeId, creator>>
      ELSE /\ nextRecipeId <= MaxRecipes
           /\ recipes' = recipes @@ (nextRecipeId :>
                             [user |-> u, title |-> d.title, assoc |-> [k \in Kinds |-> {}]])
           /\ nextRecipeId' = nextRecipeId + 1
           /\ creator' = creator @@ (nextRecipeId :> u)
           /\ Begin(c, AfterKind([NewReq(u, "create", 0, d) EXCEPT !.instance = nextRecipeId], "-"))
           /\ UNCHANGED labels

\* The instance get_object() loads: the row's columns as read.
Loaded(u, op, pk, d) ==
    [NewReq(u, op, pk, d) EXCEPT !.instance = pk,
        !.inst = [user |-> recipes[pk].user, title |-> recipes[pk].title]]

\* get_object(): the lookup of pk in get_queryset(); 404 when it is not
\* there (before the handler reads request.data), else the handler goes on
\* as `found`.
get_object(c, u, op, pk, found) ==
    /\ Begin(c, IF pk \in get_queryset(u) THEN found
                ELSE Respond(NewReq(u, op, pk, EmptyPayload), 404))
    /\ UNCHANGED <<labels, recipes, nextRecipeId, creator>>

\* The payloads an update of pk by u gets to read.
Readable(u, pk) == IF pk \in get_queryset(u) THEN Receivable ELSE {EmptyPayload}

\* PATCH /recipes/pk/
StartUpdate(c, u, pk, d) ==
    get_object(c, u, "update", pk, AfterKind(Loaded(u, "update", pk, d), "-"))

\* PUT /recipes/pk/: as PATCH, with the required fields required; there is
\* no validated data when one is missing.
StartPut(c, u, pk, d) ==
    get_object(c, u, "update", pk,
               IF d.title = None
                 THEN Respond(Loaded(u, "update", pk, [EmptyPayload EXCEPT !.user = d.user]), 400)
                 ELSE AfterKind(Loaded(u, "update", pk, d), "-"))

\* DELETE /recipes/pk/
StartDelete(c, u, pk) ==
    get_object(c, u, "delete", pk,
               [Loaded(u, "delete", pk, EmptyPayload) EXCEPT !.pc = "delete"])

\* GET /recipes/pk/
Retrieve(c, u, pk) ==
    get_object(c, u, "retrieve", pk,
               Respond(Loaded(u, "retrieve", pk, EmptyPayload), 200))

\* POST /recipes/pk/upload-image/: get_serializer_class names
\* serializers.RecipeImageSerializer, which serializers.py does not define.
upload_image(c, u, pk) ==
    get_object(c, u, "upload_image", pk,
               Respond(Loaded(u, "upload_image", pk, EmptyPayload), 500))

\* GET /recipes/
list_recipes(c, u) ==
    /\ Begin(c, Respond([NewReq(u, "list", 0, EmptyPayload)
                            EXCEPT !.result = order_by_minus_id(get_queryset(u))], 200))
    /\ UNCHANGED <<labels, recipes, nextRecipeId, creator>>

\* GET /tags/ and GET /ingredients/
list_labels(c, u, k) ==
    /\ \E s \in order_by_minus_name(attr_queryset(k, u)) :
          Begin(c, Respond([NewReq(u, "list", 0, EmptyPayload)
                              EXCEPT !.kind = k, !.result = [i \in DOMAIN s |-> s[i].id]], 200))
    /\ UNCHANGED <<labels, recipes, nextRecipeId, creator>>

\* ------------------------------------------------------------- reconciler
Name(r) == r.data.list[r.kind][r.i]

\* Worker c is at statement `pc` of its handler.
At(c, pc) == c \in Workers /\ req[c].pc = pc

\* instance.<kind>.clear() in update()
Clear(c) ==
    LET r == req[c] IN
    /\ At(c, "clear")
    /\ recipes' = IF r.instance \in DOMAIN recipes
                    THEN [recipes EXCEPT ![r.instance] = ClearAssoc(@, r.kind)]
                    ELSE recipes
    /\ labels' = IF r.instance \in DOMAIN recipes
                   THEN [labels EXCEPT ![r.kind] = AfterClear(@, recipes[r.instance], r.kind)]
                   ELSE labels
    /\ req' = [req EXCEPT ![c] = IF Len(r.data.list[r.kind]) > 0
                                   THEN [r EXCEPT !.pc = "get"]
                                   ELSE AfterKind(r, r.kind)]
    /\ UNCHANGED <<nextRecipeId, quota, creator>>

\* get_or_create, first statement: get(user=auth_user, **tag), with
\* MultipleObjectsReturned left to the caller.
Lookup(r, m) ==
    IF Cardinality(m) = 1 THEN [r EXCEPT !.pc = "add", !.obj = (CHOOSE x \in m : TRUE).id]
    ELSE IF m = {} THEN [r EXCEPT !.pc = "insert", !.missed = @ \cup {<<r.kind, Name(r)>>}]
    ELSE Respond(r, 500)

\* The IntegrityError raised without a second get().
RelookupRaises(r, m) == Respond(r, 500)

\* get_or_create after an IntegrityError: get() again, and the error is
\* raised when the row is still not there.
Relookup(r, m) ==
    IF Cardinality(m) = 1 THEN [r EXCEPT !.pc = "add", !.obj = (CHOOSE x \in m : TRUE).id]
    ELSE Respond(r, 500)

\* Tag.objects.create in place of get_or_create: no lookup, and the
\* IntegrityError of a second row is raised.
plain_create(r, rows) ==
    LET m == Matching(rows, r.user, Name(r)) IN
    IF r.pc = "get" THEN [rows |-> rows, req |-> [r EXCEPT !.pc = "insert"]]
    ELSE IF UniqueOwnerName /\ m # {} THEN [rows |-> rows, req |-> Respond(r, 500)]
    ELSE [rows |-> rows \cup {NewRow(rows, r.user, Name(r))},
          req |-> [r EXCEPT !.pc = "add", !.obj = NewRow(rows, r.user, Name(r)).id]]

\* A hand-written get-then-create: the lookup, and the IntegrityError of a
\* lost race is raised.
get_then_create(r, rows) ==
    LET m == Matching(rows, r.user, Name(r)) IN
    IF r.pc = "get" THEN [rows |-> rows, req |-> Lookup(r, m)]
    ELSE IF UniqueOwnerName /\ m # {}
      THEN [rows |-> rows, req |-> Respond([r EXCEPT !.conflict = @ \cup {<<r.kind, Name(r)>>}], 500)]
    ELSE [rows |-> rows \cup {NewRow(rows, r.user, Name(r))},
          req |-> [r EXCEPT !.pc = "add", !.obj = NewRow(rows, r.user, Name(r)).id]]

\* Tag.objects.get_or_create(user=auth_user, **tag) on the table `rows`, one
\* statement at a time: get(), then create().  The storage layer answers a
\* second row for (owner, name) with an IntegrityError, and get_or_create
\* then looks the row up again; no statement of these handlers removes a
\* label row in between.
get_or_create(r, rows) ==
    LET m == Matching(rows, r.user, Name(r)) IN
    IF r.pc = "get" THEN [rows |-> rows, req |-> Lookup(r, m)]
    ELSE IF UniqueOwnerName /\ m # {}
      THEN [rows |-> rows, req |-> Relookup([r EXCEPT !.conflict = @ \cup {<<r.kind, Name(r)>>}], m)]
    ELSE [rows |-> rows \cup {NewRow(rows, r.user, Name(r))},
          req |-> [r EXCEPT !.pc = "add", !.obj = NewRow(rows, r.user, Name(r)).id]]

Get(c) ==
    LET r == req[c] IN
    /\ At(c, "get")
    /\ req' = [req EXCEPT ![c] = get_or_create(r, labels[r.kind]).req]
    /\ UNCHANGED <<labels, recipes, nextRecipeId, quota, creator>>

Insert(c) ==
    LET r == req[c] IN
    /\ At(c, "insert")
    /\ labels' = [labels EXCEPT ![r.kind] = get_or_create(r, @).rows]
    /\ req' = [req EXCEPT ![c] = get_or_create(r, labels[r.kind]).req]
    /\ UNCHANGED <<recipes, nextRecipeId, quota, creator>>

\* instance.<kind>.add(obj), then the next element of the list.
Add(c) ==
    LET r == req[c] IN
    /\ At(c, "add")
    /\ IF r.instance \in DOMAIN recipes
         THEN /\ recipes' = [recipes EXCEPT ![r.instance] = AddAssoc(@, r.kind, r.obj)]
              /\ req' = [req EXCEPT ![c] = IF r.i < Len(r.data.list[r.kind])
                                             THEN [r EXCEPT !.pc = "get", !.i = r.i + 1]
                                             ELSE AfterKind(r, r.kind)]
         ELSE /\ req' = [req EXCEPT ![c] = Respond(r, 500)]
              /\ UNCHANGED recipes
    /\ UNCHANGED <<labels, nextRecipeId, quota, creator>>

\* update(): setattr for the remaining fields, then instance.save(), which
\* writes the loaded instance's columns (and inserts the row when the UPDATE
\* matched none).
Save(c) ==
    LET r == req[c]
        title == IF r.data.title = None THEN r.inst.title ELSE r.data.title
        user == IF r.data.user = None THEN r.inst.user ELSE r.data.user
    IN
    /\ At(c, "save")
    /\ recipes' = IF r.instance \in DOMAIN recipes
                    THEN [recipes EXCEPT ![r.instance].user = user, ![r.instance].title = title]
                    ELSE recipes @@ (r.instance :>
                             [user |-> user, title |-> title, assoc |-> [k \in Kinds |-> {}]])
    /\ req' = [req EXCEPT ![c] = Respond(r, 200)]
    /\ UNCHANGED <<labels, nextRecipeId, quota, creator>>

\* instance.delete(): the recipe row and its through rows.
Delete(c) ==
    LET r == req[c] IN
    /\ At(c, "delete")
    /\ recipes' = [id \in DOMAIN recipes \ {r.instance} |-> recipes[id]]
    /\ req' = [req EXCEPT ![c] = Respond(r, 204)]
    /\ UNCHANGED <<labels, nextRecipeId, quota, creator>>

CreateRecipe ==
    \E c \in Clients : Accepts(c) /\ \E u \in Users, d \in Receivable : StartCreate(c, u, d)

UpdateRecipe ==
    \E c \in Clients : Accepts(c) /\
        \E u \in Users, pk \in 1..MaxRecipes : \E d \in Readable(u, pk) : StartUpdate(c, u, pk, d)

DeleteRecipe ==
    \E c \in Clients : Accepts(c) /\ \E u \in Users, pk \in 1..MaxRecipes : StartDelete(c, u, pk)

RetrieveRecipe ==
    \E c \in Clients : Accepts(c) /\ \E u \in Users, pk \in 1..MaxRecipes : Retrieve(c, u, pk)

UploadImage ==
    \E c \in Clients : Accepts(c) /\ \E u \in Users, pk \in 1..MaxRecipes : upload_image(c, u, pk)

Next ==
    \/ CreateRecipe
    \/ UpdateRecipe
    \/ DeleteRecipe
    \/ RetrieveRecipe
    \/ UploadImage
    \/ \E c \in Clients : Clear(c)
    \/ \E c \in Clients : Get(c)
    \/ \E c \in Clients : Insert(c)
    \/ \E c \in Clients : Add(c)
    \/ \E c \in Clients : Save(c)
    \/ \E c \in Clients : Delete(c)

Spec == Init /\ [][Next]_vars

\* Requests whose payload carries a 'user' field that names another user.
CreateUserField ==
    \E c \in Clients : Accepts(c) /\
        \E u \in Users, d \in WithUser : d.user # u /\ StartCreate(c, u, d)

UpdateUserField ==
    \E c \in Clients : Accepts(c) /\
        \E u \in Users, pk \in 1..MaxRecipes, d \in WithUser :
            d.user # u /\ pk \in get_queryset(u) /\ StartUpdate(c, u, pk, d)

\* PUT of the user's own recipe (get_object answers that of another's before
\* the method matters).
PutRecipe ==
    \E c \in Clients : Accepts(c) /\
        \E u \in Users, pk \in 1..MaxRecipes, d \in Receivable \cup WithUser :
            d.user # u /\ pk \in get_queryset(u) /\ StartPut(c, u, pk, d)

ListRecipes ==
    \E c \in Clients : Accepts(c) /\ \E u \in Users : list_recipes(c, u)

ListTags ==
    \E c \in Clients : Accepts(c) /\ \E u \in Users : list_labels(c, u, "tags")

ListIngredients ==
    \E c \in Clients : Accepts(c) /\ \E u \in Users : list_labels(c, u, "ingredients")

ApiNext ==
    \/ Next
    \/ CreateUserField
    \/ UpdateUserField
    \/ PutRecipe
    \/ ListRecipes
    \/ ListTags
    \/ ListIngredients

ApiSpec == ApiInit /\ [][ApiNext]_vars

SerialSpec == SerialInit /\ [][Next]_vars

\* ------------------------------------------------------------- properties
Range(L) == {L[x] : x \in 1..Len(L)}

Ids(S) == {x.id : x \in S}

\* The rows of kind k that user u owns under name n.
RowsOf(rows, u, n) == {x \in rows : x.user = u /\ x.name = n}

Success == {200, 201}

\* Worker c has answered a create or an update that reached the serializer,
\* and no other request has run since that request began.
Reconciled(c) ==
    /\ req[c].pc = "done"
    /\ req[c].alone
    /\ req[c].op \in {"create", "update"}
    /\ req[c].status \notin {400, 404}

\* C1: requests that do not overlap never leave two Tag (Ingredient) rows for
\* one (owner, name): a create or update that names N ends successfully with
\* exactly one row (owner, N), associated with its recipe, and that row is the
\* one that existed before the request whenever one did.
C1_OneRowPerOwnerAndName ==
    /\ \A k \in Kinds, u \in Users, n \in Names : Cardinality(RowsOf(labels[k], u, n)) <= 1
    /\ \A c \in Workers :
         Reconciled(c) =>
           LET r == req[c] IN
           /\ r.status \in Success
           /\ r.instance \in DOMAIN recipes
           /\ \A k \in Kinds : \A n \in Range(r.data.list[k]) :
                /\ Cardinality(RowsOf(labels[k], r.user, n)) = 1
                /\ Ids(RowsOf(labels[k], r.user, n)) \subseteq recipes[r.instance].assoc[k]
                /\ RowsOf(r.pre.labels[k], r.user, n) # {}
                     => RowsOf(labels[k], r.user, n) = RowsOf(r.pre.labels[k], r.user, n)

\* A request has named twice, in one list, a label that an earlier request
\* had created.
C1_Witness ==
    \E c \in Workers, k \in Kinds, n \in Names :
        /\ Reconciled(c)
        /\ req[c].data.list[k] = <<n, n>>
        /\ RowsOf(req[c].pre.labels[k], req[c].user, n) # {}
        /\ RowsOf(labels[k], req[c].user, n) = RowsOf(req[c].pre.labels[k], req[c].user, n)

\* Both workers have answered a create or update of the same user, and the
\* get() of both missed <<k, n>>.
Raced(c, d, k, n) ==
    /\ c # d
    /\ req[c].pc = "done" /\ req[d].pc = "done"
    /\ req[c].op \in {"create", "update"} /\ req[d].op \in {"create", "update"}
    /\ req[c].user = req[d].user
    /\ <<k, n>> \in req[c].missed \cap req[d].missed

ResolvedIds(rows, u, L) == Ids({x \in rows : x.user = u /\ x.name \in Range(L)})

\* Every recipe but `id` is as the request found it.
OthersUnchanged(r, id) ==
    /\ DOMAIN recipes \ {id} = DOMAIN r.pre.recipes \ {id}
    /\ \A o \in DOMAIN recipes \ {id} : recipes[o] = r.pre.recipes[o]

\* C4: after an update that supplies the list L of a kind and runs alone, the
\* recipe's association set of that kind is exactly the set of rows its owner
\* has under the names of L, one per name, whatever it held before.
C4_UpdateReplaces ==
    \A c \in Workers :
        Reconciled(c) /\ req[c].op = "update" =>
          LET r == req[c] IN
          /\ r.status = 200
          /\ r.instance \in DOMAIN recipes
          /\ \A k \in Kinds :
               r.data.given[k] =>
                 /\ recipes[r.instance].assoc[k] = ResolvedIds(labels[k], r.user, r.data.list[k])
                 /\ Cardinality(recipes[r.instance].assoc[k]) = Cardinality(Range(r.data.list[k]))

\* An update has detached a label that was associated before and attached
\* the ones it named.
C4_Witness ==
    \E c \in Workers, k \in Kinds :
        /\ Reconciled(c) /\ req[c].op = "update"
        /\ req[c].data.list[k] # <<>>
        /\ req[c].pre.recipes[req[c].pk].assoc[k] \ recipes[req[c].pk].assoc[k] # {}
        /\ recipes[req[c].pk].assoc[k] # {}

\* C5: an update that supplies an empty list for a kind leaves the recipe
\* with no association of that kind and creates no row of that kind.
C5_EmptyListClears ==
    \A c \in Workers, k \in Kinds :
        /\ Reconciled(c) /\ req[c].op = "update"
        /\ req[c].data.given[k] /\ req[c].data.list[k] = <<>>
        => /\ req[c].status = 200
           /\ req[c].instance \in DOMAIN recipes
           /\ recipes[req[c].instance].assoc[k] = {}
           /\ labels[k] = req[c].pre.labels[k]

\* An update with an empty list has ended on a recipe that had associations.
C5_Witness ==
    \E c \in Workers, k \in Kinds :
        /\ Reconciled(c) /\ req[c].op = "update"
        /\ req[c].data.given[k] /\ req[c].data.list[k] = <<>>
        /\ req[c].pre.recipes[req[c].pk].assoc[k] # {}
        /\ recipes[req[c].pk].assoc[k] = {}

\* C6: an update that omits the field of a kind leaves the recipe's
\* association set of that kind and the table of that kind as they were; the
\* title changes only when it is supplied, the owner never, and no other
\* recipe changes.
C6_OmittedFieldUntouched ==
    \A c \in Workers :
        Reconciled(c) /\ req[c].op = "update" =>
          LET r == req[c]
              old == r.pre.recipes[r.pk]
          IN
          /\ r.status = 200
          /\ r.instance \in DOMAIN recipes
          /\ \A k \in Kinds :
               ~r.data.given[k] =>
                 /\ recipes[r.instance].assoc[k] = old.assoc[k]
                 /\ labels[k] = r.pre.labels[k]
          /\ recipes[r.instance].title = IF r.data.title = None THEN old.title ELSE r.data.title
          /\ recipes[r.instance].user = old.user
          /\ OthersUnchanged(r, r.instance)

\* An update that only renames has ended on a recipe with associations.
C6_Witness ==
    \E c \in Workers :
        /\ Reconciled(c) /\ req[c].op = "update"
        /\ \A k \in Kinds : ~req[c].data.given[k]
        /\ \E k \in Kinds : recipes[req[c].pk].assoc[k] # {}
        /\ req[c].data.title \notin {None, req[c].pre.recipes[req[c].pk].title}
        /\ recipes[req[c].pk].title = req[c].data.title

\* C7: every Tag and Ingredient associated with a recipe is a row of the
\* recipe's owner.
C7_AssociationsAreOwned ==
    \A id \in DOMAIN recipes, k \in Kinds :
        \A x \in recipes[id].assoc[k] :
            \E row \in labels[k] : row.id = x /\ row.user = recipes[id].user

\* A request has named a label that only the other user owned, and its
\* recipe is associated with a new row of its own user.
C7_Witness ==
    \E c \in Workers, k \in Kinds, n \in Names :
        LET r == req[c] IN
        /\ Reconciled(c)
        /\ n \in Range(r.data.list[k])
        /\ RowsOf(r.pre.labels[k], r.user, n) = {}
        /\ \E o \in Users \ {r.user} : RowsOf(r.pre.labels[k], o, n) # {}
        /\ RowsOf(labels[k], r.user, n) # {}
        /\ Ids(RowsOf(labels[k], r.user, n)) \subseteq recipes[r.instance].assoc[k]

\* The names of a list before position i.
Before(L, i) == {L[x] : x \in 1..(i - 1)}

\* C8: the attach path is additive.  While a request that runs alone
\* attaches a list, the labels it has attached so far stay attached; after a
\* create the recipe's association set of each kind is exactly the set of
\* rows resolved from the list (the new recipe had none before), rows that
\* existed are kept, and an empty or missing list changes neither the
\* association set nor the table; no other recipe changes.
C8_AttachIsAdditive ==
    \A c \in Workers :
        LET r == req[c] IN
        /\ r.alone /\ r.pc \in {"get", "insert", "add"} /\ r.instance \in DOMAIN recipes
             => recipes[r.instance].assoc[r.kind]
                  = Ids({x \in labels[r.kind] : x.user = r.user /\ x.name \in Before(r.data.list[r.kind], r.i)})
        /\ Reconciled(c) /\ r.op = "create"
             => /\ r.status = 201
                /\ r.instance \in DOMAIN recipes \ DOMAIN r.pre.recipes
                /\ OthersUnchanged(r, r.instance)
                /\ \A k \in Kinds :
                     /\ recipes[r.instance].assoc[k] = ResolvedIds(labels[k], r.user, r.data.list[k])
                     /\ Cardinality(recipes[r.instance].assoc[k]) = Cardinality(Range(r.data.list[k]))
                     /\ r.pre.labels[k] \subseteq labels[k]
                     /\ r.data.list[k] = <<>> => labels[k] = r.pre.labels[k]

\* A create has attached two different labels of one kind and none of the
\* other.
C8_Witness ==
    \E c \in Workers, k \in Kinds :
        /\ Reconciled(c) /\ req[c].op = "create"
        /\ Cardinality(Range(req[c].data.list[k])) = 2
        /\ Cardinality(recipes[req[c].instance].assoc[k]) = 2
        /\ \E o \in Kinds \ {k} : req[c].data.list[o] = <<>> /\ labels[o] = req[c].pre.labels[o]

\* C9: no statement of a recipe request removes or changes a Tag or
\* Ingredient row.
C9_LabelRowsStay == [][\A k \in Kinds : labels[k] \subseteq labels'[k]]_vars

\* A delete has removed a recipe that had associations, and the rows are all
\* still there.
C9_Witness ==
    \E c \in Workers, k \in Kinds :
        LET r == req[c] IN
        /\ r.pc = "done" /\ r.alone /\ r.op = "delete" /\ r.status = 204
        /\ r.pre.recipes[r.pk].assoc[k] # {}
        /\ r.pk \notin DOMAIN recipes
        /\ labels = r.pre.labels

Foreign(r) ==
    /\ r.op \in {"retrieve", "update", "delete", "upload_image"}
    /\ r.alone
    /\ r.pk \in DOMAIN r.pre.recipes
    /\ r.pre.recipes[r.pk].user # r.user

\* C10: a retrieve, update, delete or image upload that targets another
\* user's recipe is answered 404 and changes nothing, and no statement of the
\* serializer or of delete runs for a recipe that get_object() loaded from
\* another user.
C10_ForeignRecipeNotFound ==
    \A c \in Workers :
        LET r == req[c] IN
        /\ Foreign(r) =>
             /\ r.pc = "done" /\ r.status = 404
             /\ labels = r.pre.labels /\ recipes = r.pre.recipes
        /\ r.op # "create" /\ ~Free(c) => r.inst.user = r.user

\* An update has been refused on another user's recipe that has
\* associations.
C10_Witness ==
    \E c \in Workers, k \in Kinds :
        LET r == req[c] IN
        /\ Foreign(r) /\ r.op = "update"
        /\ r.pre.recipes[r.pk].assoc[k] # {}
        /\ r.status = 404

\* C11: a recipe's owner is the authenticated user whose POST created it,
\* and stays so through every update, PATCH or PUT, also when the payload
\* carries a 'user' field that names another user.
C11_OwnerIsCreator ==
    \A id \in DOMAIN recipes : recipes[id].user = creator[id]

\* An update whose payload named another user as 'user' has been saved.
C11_Witness ==
    \E c \in Workers :
        LET r == req[c] IN
        /\ r.pc = "done" /\ r.op = "update" /\ r.status = 200
        /\ r.sent \notin {None, r.user}
        /\ r.instance \in DOMAIN recipes

\* The list response r holds each id of `own` once and nothing else.
Exactly(r, own) == Len(r.result) = Cardinality(own) /\ Range(r.result) = own

\* C12: the recipe list returned to a user holds exactly the recipes that
\* user owns, none of another user's, highest id first; the tag and
\* ingredient lists hold exactly that user's rows.
C12_ListsLimitedToUser ==
    \A c \in Workers :
        LET r == req[c]
            own == {id \in DOMAIN r.pre.recipes : r.pre.recipes[id].user = r.user}
        IN  r.pc = "done" /\ r.op = "list" /\ r.alone =>
              IF r.kind = "-"
                THEN /\ Exactly(r, own)
                     /\ \A i, j \in DOMAIN r.result : i < j => r.result[i] > r.result[j]
                ELSE Exactly(r, Ids({x \in r.pre.labels[r.kind] : x.user = r.user}))

\* A user with a recipe has been sent the recipe list while another user's
\* recipe exists.
C12_Witness ==
    \E c \in Workers :
        LET r == req[c] IN
        /\ r.pc = "done" /\ r.op = "list" /\ r.kind = "-" /\ r.alone
        /\ r.result # <<>>
        /\ \E id \in DOMAIN recipes : recipes[id].user # r.user

\* Workers c1 and c2 have both answered 200 to an update of the same recipe
\* that supplied the tags field; the two requests overlapped, a request that
\* begins once another has ended takes that one's place in req.
BothUpdated(c1, c2) ==
    /\ c1 # c2
    /\ \A c \in {c1, c2} :
          /\ req[c].pc = "done" /\ req[c].op = "update" /\ req[c].status = 200
          /\ req[c].data.given["tags"]
    /\ req[c1].instance = req[c2].instance
    /\ req[c1].instance \in DOMAIN recipes

\* C13: after two concurrent updates of one recipe that both supply the tags
\* field, with lists L1 and L2, the recipe's tags are the rows L1 resolves
\* to or the rows L2 resolves to (no mixture, no union), and are not empty
\* when neither list is.
C13_ConcurrentUpdatesPickOne ==
    \A c1, c2 \in Workers :
        BothUpdated(c1, c2) =>
            LET r1 == req[c1]
                r2 == req[c2]
                S1 == ResolvedIds(labels["tags"], r1.user, r1.data.list["tags"])
                S2 == ResolvedIds(labels["tags"], r2.user, r2.data.list["tags"])
                T == recipes[r1.instance].assoc["tags"]
            IN  /\ T \in {S1, S2}
                /\ (S1 # {} /\ S2 # {}) => T # {}

\* C14: the two label kinds are reconciled independently: an update that
\* supplies only the tags field leaves the recipe's ingredient associations
\* and every Ingredient row as they were, and an update that supplies only
\* the ingredients field leaves the tag associations and every Tag row.
C14_KindsIndependent ==
    \A c \in Workers, k \in Kinds, other \in Kinds :
        LET r == req[c] IN
        /\ Reconciled(c) /\ r.op = "update" /\ r.status = 200
        /\ other # k /\ r.data.given[k] /\ ~r.data.given[other]
        => /\ r.instance \in DOMAIN recipes
           /\ recipes[r.instance].assoc[other] = r.pre.recipes[r.instance].assoc[other]
           /\ labels[other] = r.pre.labels[other]

\* An update that supplied one kind only has made a row of that kind and
\* associated it, on a recipe that has associations of the other kind.
C14_Witness ==
    \E c \in Workers, k \in Kinds, other \in Kinds :
        LET r == req[c] IN
        /\ Reconciled(c) /\ r.op = "update" /\ r.status = 200
        /\ other # k /\ r.data.given[k] /\ ~r.data.given[other]
        /\ labels[k] # r.pre.labels[k]
        /\ recipes[r.instance].assoc[k] # {}
        /\ recipes[r.instance].assoc[other] # {}

====
